---- MODULE Spec2Model ----
(***************************************************************************)
(* prusaCam: the time-lapse state machine (camera/rpi_timelapse.go), the   *)
(* snapshot path (camera/rpi_camera.go) and the status cache of the        *)
(* PrusaLink client (prusaLinkClient).                                     *)
(*                                                                         *)
(* Spec      : the camera package.  One state-machine goroutine            *)
(*             (initTimelapse -> handleTimelapse) interleaved with         *)
(*             concurrent Snapshot requests; the status client is the      *)
(*             Client interface, so a poll yields any (status, err) pair.  *)
(* SpecCache : the client's JobStatus with its single-entry cache, a       *)
(*             clock and two concurrent callers.                           *)
(***************************************************************************)
EXTENDS Integers, Sequences, FiniteSets, TLC

(***************************************************************************)
(* Bounds of the model.                                                    *)
(***************************************************************************)
\* sessions (temporary directories) created in one behaviour
MaxDirs == 2
\* frames the continuous capture process writes into one directory
MaxFrames == 1
\* last clock value (seconds) of SpecCache
MaxTime == 11
\* remote calls issued in one behaviour of SpecCache
MaxCalls == 2
\* the largest frame count, video length and minimum rate given to fps
MaxCount == 240
MaxVideoLenght == 7
MaxMinFPS == 12
\* the largest number of entries of a listing given to lastTLShotInternal
MaxEntries == 4

(***************************************************************************)
(* Program constants.                                                      *)
(***************************************************************************)
\* "cache 10 seconds": the 10 * time.Second of jobStatusFromCache
TTL == 10
\* the field width of "image%06d.jpg", "image%6d.jpg"
ShotWidth == 6
\* count/10 in finishTimelapse
HoldDivisor == 10
\* viper defaults timelapse.videoLenght and timelapse.minFPS
VideoLenght == 7
MinFPS == 12

(***************************************************************************)
(* Printer states (prusaLinkClient constants) and statuses.                *)
(***************************************************************************)
StatusIdle == "IDLE"
StatusBusy == "BUSY"
StatusPrinting == "PRINTING"
StatusPaused == "PAUSED"
StatusFinished == "FINISHED"
StatusStopped == "STOPPED"
StatusError == "ERROR"
StatusAttention == "ATTENTION"
StatusReady == "READY"

PrinterStates ==
    {StatusIdle, StatusBusy, StatusPrinting, StatusPaused, StatusFinished,
     StatusStopped, StatusError, StatusAttention, StatusReady}

\* what the "state" field of a response may hold: a known state or anything else
StateInputs == PrinterStates \cup {""}

\* type Status struct
Status(online, id, file, state, progress) ==
    [Online |-> online, JobID |-> id, FileName |-> file, State |-> state,
     Progress |-> progress]

\* &Status{} and &Status{Online: false}: every field zero
ZeroStatus == Status(FALSE, 0, "", "", 0)

\* the 204 answer: &Status{Online: true, State: StatusFinished}
NoJobStatus == Status(TRUE, 0, "", StatusFinished, 0)

\* jobs the printer reports: (id, display name)
JobInputs == {<<17, "bracket.gcode">>}
ProgressInputs == {0, 50}

\* the statuses a successful JobStatus can return
StatusInputs ==
    {ZeroStatus, NoJobStatus} \cup
    {Status(TRUE, j[1], j[2], s, p) : j \in JobInputs, s \in StateInputs, p \in ProgressInputs}

\* the (status, err) pairs of Client.JobStatus
PollOk(st) == [err |-> FALSE, st |-> st]
PollErr == [err |-> TRUE, st |-> ZeroStatus]
PollInputs == {PollErr} \cup {PollOk(st) : st \in StatusInputs}

(***************************************************************************)
(* Job-state classification.                                               *)
(***************************************************************************)
timelapseShouldStart_mut(state) ==
    state = StatusPrinting \/ state = StatusAttention \/ state = StatusPaused

timelapseShouldStart(state) ==
    state = StatusPrinting \/ state = StatusAttention

timelapseShouldBeRunning_mut(state) ==
    timelapseShouldStart(state) \/ state = StatusPaused

timelapseShouldBeRunning(state) ==
    timelapseShouldStart(state) \/ state = StatusPaused \/ state = StatusBusy

timelapseShouldStop_mut(state) ==
    \/ state = StatusError
    \/ state = StatusFinished
    \/ state = StatusStopped
    \/ state = StatusReady
    \/ state = StatusPaused

timelapseShouldStop(state) ==
    \/ state = StatusIdle
    \/ state = StatusError
    \/ state = StatusFinished
    \/ state = StatusStopped
    \/ state = StatusReady

\* jobName: the file name, or strconv.Itoa(JobID) when it is empty
jobName(f) == IF f.FileName # "" THEN f.FileName ELSE ToString(f.JobID)

(***************************************************************************)
(* File names.  A name is a sequence of one-character strings so that the  *)
(* directory order (os.ReadDir sorts by filename) and fmt's padding and    *)
(* scanning can be computed.                                               *)
(***************************************************************************)
DigitChars == <<"0", "1", "2", "3", "4", "5", "6", "7", "8", "9">>

IsDigit(ch) == \E i \in 1..10 : DigitChars[i] = ch
DigitValue(ch) == (CHOOSE i \in 1..10 : DigitChars[i] = ch) - 1

\* byte order of the characters that occur in names
CharCode(ch) ==
    CASE ch = "\t" -> 9
      [] ch = " " -> 32
      [] ch = "+" -> 43
      [] ch = "-" -> 45
      [] ch = "." -> 46
      [] IsDigit(ch) -> 48 + DigitValue(ch)
      [] ch = "a" -> 97
      [] ch = "e" -> 101
      [] ch = "g" -> 103
      [] ch = "i" -> 105
      [] ch = "j" -> 106
      [] ch = "m" -> 109
      [] ch = "p" -> 112
      [] ch = "t" -> 116
      [] ch = "x" -> 120
      [] OTHER -> 127

RECURSIVE Itoa(_)
\* strconv.Itoa / %d of an integer
Itoa(n) == IF n < 0 THEN <<"-">> \o Itoa(-n)
           ELSE IF n < 10 THEN <<DigitChars[n + 1]>>
           ELSE Itoa(n \div 10) \o <<DigitChars[(n % 10) + 1]>>

RECURSIVE Repeat(_, _)
Repeat(ch, k) == IF k <= 0 THEN <<>> ELSE <<ch>> \o Repeat(ch, k - 1)

\* %<pad><w>d: left-padded to at least w characters, never truncated; zeros
\* go between the sign and the digits, blanks before the sign
PadInt(pad, w, n) ==
    IF pad = "0" /\ n < 0
    THEN <<"-">> \o Repeat(pad, w - 1 - Len(Itoa(-n))) \o Itoa(-n)
    ELSE Repeat(pad, w - Len(Itoa(n))) \o Itoa(n)

ImagePrefix == <<"i", "m", "a", "g", "e">>
JpgSuffix == <<".", "j", "p", "g">>

\* the continuous process's "-o <dir>/image%06d.jpg": frame id, zero padded
frameFilename(id) == ImagePrefix \o PadInt("0", ShotWidth, id) \o JpgSuffix

\* shotFilename: fmt.Sprintf("%s/image%6d.jpg", dir, id): space padded
shotFilename(dir, id) ==
    [dir |-> dir, name |-> ImagePrefix \o PadInt(" ", ShotWidth, id) \o JpgSuffix]

\* strings.HasSuffix
HasSuffix(s, suf) ==
    Len(s) >= Len(suf) /\ SubSeq(s, Len(s) - Len(suf) + 1, Len(s)) = suf

HasPrefix(s, pre) == Len(s) >= Len(pre) /\ SubSeq(s, 1, Len(pre)) = pre

RECURSIVE LexLess(_, _)
\* byte-wise order of two names
LexLess(a, b) ==
    IF a = <<>> THEN b # <<>>
    ELSE IF b = <<>> THEN FALSE
    ELSE IF Head(a) = Head(b) THEN LexLess(Tail(a), Tail(b))
    ELSE CharCode(Head(a)) < CharCode(Head(b))

RECURSIVE SortEntries(_)
\* os.ReadDir: the entries of a directory sorted by filename
SortEntries(S) ==
    IF S = {} THEN <<>>
    ELSE LET m == CHOOSE e \in S : \A o \in S \ {e} : LexLess(e.name, o.name)
         IN <<m>> \o SortEntries(S \ {m})

\* a directory entry
Entry(name, isDir) == [name |-> name, isDir |-> isDir]

(***************************************************************************)
(* The last-frame lookup and the frame-id parser.                          *)
(***************************************************************************)
ShotFound(name, count) == [kind |-> "ok", name |-> name, count |-> count]
ShotError == [kind |-> "err", name |-> <<>>, count |-> 0]
ShotPanic == [kind |-> "panic", name |-> <<>>, count |-> 0]

\* the test of the loop body: a regular file whose name ends in ".jpg"
IsShot(e) == ~e.isDir /\ HasSuffix(e.name, JpgSuffix)

RECURSIVE lastShotLoop(_, _)
\* for i := len(files) - 1; i >= 0; i++ { ... }  with files[i] 0-based:
\* an index past the end is a run-time panic (index out of range)
lastShotLoop(files, i) ==
    IF ~(i >= 0) THEN ShotError
    ELSE IF i >= Len(files) THEN ShotPanic
    ELSE IF IsShot(files[i + 1]) THEN ShotFound(files[i + 1].name, Len(files))
    ELSE lastShotLoop(files, i + 1)

\* lastTLShotInternal on the listing os.ReadDir returned
lastTLShotInternal(files) == lastShotLoop(files, Len(files) - 1)

\* fmt's isSpace, on the characters that occur in names
IsSpace(ch) == ch \in {" ", "\t"}

\* the sign characters scanInt accepts before the digits
SignChars == {"+", "-"}

RECURSIVE SkipSpace(_)
\* ss.SkipSpace: the white space before a verb is consumed
SkipSpace(s) == IF s # <<>> /\ IsSpace(Head(s)) THEN SkipSpace(Tail(s)) ELSE s

RECURSIVE DigitRun(_, _)
\* the digits a %<w>d verb consumes: at most w of them
DigitRun(s, w) ==
    IF w > 0 /\ s # <<>> /\ IsDigit(Head(s)) THEN <<Head(s)>> \o DigitRun(Tail(s), w - 1)
    ELSE <<>>

RECURSIVE Atoi(_, _)
Atoi(ds, acc) == IF ds = <<>> THEN acc ELSE Atoi(Tail(ds), acc * 10 + DigitValue(Head(ds)))

\* getShotID: fmt.Sscanf(filepath.Base(name), "image%6d.jpg", &id).
\* The literal "image", white space skipped before the verb, then a token of
\* at most six characters, an optional sign and digits, then the literal
\* ".jpg"; input left over is not an error.
getShotID(name) ==
    IF ~HasPrefix(name, ImagePrefix) THEN [err |-> TRUE, id |-> 0]
    ELSE LET rest == SkipSpace(SubSeq(name, Len(ImagePrefix) + 1, Len(name)))
             sg == IF rest # <<>> /\ Head(rest) \in SignChars THEN 1 ELSE 0
             ds == DigitRun(SubSeq(rest, sg + 1, Len(rest)), ShotWidth - sg)
             after == SubSeq(rest, sg + Len(ds) + 1, Len(rest))
             val == IF sg = 1 /\ Head(rest) = "-" THEN 0 - Atoi(ds, 0) ELSE Atoi(ds, 0)
         IN IF ds = <<>> THEN [err |-> TRUE, id |-> 0]
            ELSE IF ~HasPrefix(after, JpgSuffix) THEN [err |-> TRUE, id |-> val]
            ELSE [err |-> FALSE, id |-> val]

\* Go's integer division: the quotient truncated toward zero (b # 0)
GoDiv(a, b) ==
    LET abs(x) == IF x < 0 THEN -x ELSE x
        q == abs(a) \div abs(b)
    IN IF (a < 0) = (b < 0) THEN q ELSE -q

\* the builtin max
Max(a, b) == IF a > b THEN a ELSE b

\* buildVideo, lines 238-239: fps := count / c.config.VideoLenght;
\* fps = max(fps, c.config.MinFPS)
fps_mut(count, videoLenght, minFPS) == GoDiv(count, videoLenght)

fps(count, videoLenght, minFPS) == Max(GoDiv(count, videoLenght), minFPS)

\* the frame rate with the default configuration
videoFPS(count) == fps(count, VideoLenght, MinFPS)

(***************************************************************************)
(* State.                                                                  *)
(***************************************************************************)
VARIABLES
    \* timelapseSvc: the session flag and the session record (<<>> is nil)
    tlRunning, timelapse,
    \* timelapseSvc.RWMutex: TRUE while handleTimelapse holds the write lock
    rwLocked,
    \* rpicamMutex: "free" or the goroutine that locked it
    rpicamMutex,
    \* the continuous capture process: "none", "running", "exited";
    \* whether its context was cancelled; whether Wait has returned
    proc, cancelled, waited,
    \* the goroutines whose one-shot rpicam-still process is running
    capturing,
    \* the session directories: dirs[d] is the set of entries of directory d
    dirs,
    \* the state-machine goroutine: position and locals
    tpc, poll, status, tmpDir, shot, cpI,
    \* the Snapshot requests
    snap,
    \* the process died of a run-time panic
    crashed,
    \* history: sessions started, buildVideo calls, and the last buildVideo
    \* call (<<>> when there was none): its session directory, its count and
    \* what takeLastShot had returned before it
    nStart, nBuild, built,
    \* prusaLinkClient: the cache entry (<<>> is nil), its time, the clock
    cachedStatus, cachedTime, now,
    \* the JobStatus callers, and the remote calls issued so far
    call, nCalls,
    \* history: the status the last store put into the cache, <<>> when there
    \* is none or a JobStatus has failed since
    lastGood,
    \* TimelapseConfig.Loglevel is "debug"; the goroutine that startTimelapse
    \* starts in that case to call cmd.Wait(): "none" (not started, or its Wait
    \* returned "exec: not started"), "waiting" (inside Wait), "done" (Wait
    \* returned), "hung" (the process's result went to the other Wait)
    debug, dbg,
    \* the argument and the result of a function applied on its own
    \* (<<>>: none)
    fnArg, fnRes,
    \* the buildVideo goroutines started: the session record each was
    \* given, its count, and "running", "done" (ffmpeg succeeded) or
    \* "failed" (ffmpeg failed or was killed at the 10-minute timeout)
    enc

tlVars == <<tlRunning, timelapse, rwLocked, rpicamMutex, proc, cancelled, waited,
            capturing, dirs, crashed>>
tickVars == <<tpc, poll, status, tmpDir, shot, cpI>>
histVars == <<nStart, nBuild, built>>
cacheVars == <<cachedStatus, cachedTime, now, call, nCalls, lastGood>>
auxVars == <<debug, dbg, fnArg, fnRes, enc>>
vars == <<tlVars, tickVars, snap, histVars, cacheVars, auxVars>>

\* concurrent Snapshot requests (HTTP /snapshot, /forcesend, the sender loop)
Snaps == {"s1", "s2"}
\* the callers of JobStatus: the state machine and the sender loop
Callers == {"timelapse", "sender"}


\* the locals of finishTimelapse: last frame name, entry count, frame id, and
\* whether takeLastShot returned an error
NoShot == [name |-> <<>>, count |-> 0, id |-> 0, err |-> FALSE]

\* a Snapshot request: position, what isTimelapseRunning returned, whether it
\* locked rpicamMutex, the session directory LastTLShot read under the read
\* lock (-1: none) while it is being listed, and the request's outcome
SnapIdle == [pc |-> "idle", running |-> FALSE, locked |-> FALSE, dir |-> -1, res |-> "none"]

(***************************************************************************)
(* Helpers of the camera package that the mutations of the checks target.  *)
(***************************************************************************)
\* sync.Mutex.TryLock on rpicamMutex
TryLock_mut(m) == TRUE

TryLock(m) == m = "free"

\* sync.Mutex.Lock: returns once the mutex is free, waits as long as it is held
Lock_mut(m) == TRUE

Lock(m) == m = "free"

\* Snapshot: "take" runs takeShot, "last" runs LastTLShot
SnapshotBranch_mut(running) == "take"

SnapshotBranch(running) == IF running THEN "last" ELSE "take"

\* the session record finishTimelapse leaves: c.timelapse = nil
ClearedSession_mut(tl) == tl

ClearedSession(tl) == <<>>

\* startTimelapse, line 130: the test that ends the wait-for-progress loop
ProgressStarted_mut(st) == TRUE

ProgressStarted(st) == st.Progress > 0

\* exec.Cmd.Wait: Process.Wait returns only when the process has exited
WaitReturns_mut(p) == p # "none"

WaitReturns(p) == p = "exited"

\* startTimelapse, lines 173-188: tlRunning after cmd.Start; it is set on the
\* path a successful Start takes, the error path returns before
RunningAfterStart_mut(ok, running) == TRUE

RunningAfterStart(ok, running) == IF ok THEN TRUE ELSE running

\* LastTLShot, lines 288-292: the directory taken from c.timelapse under the
\* read lock; -1 stands for the error "something went wrong - timelapse
\* doesn't exists" that a nil c.timelapse gives
SessionDir_mut(tl) == IF tl = <<>> THEN 1 ELSE tl[1].currentDir

SessionDir(tl) == IF tl = <<>> THEN -1 ELSE tl[1].currentDir

\* finishTimelapse, line 222: go c.buildVideo(c.timelapse, count); the
\* goroutine gets the pointer to the session record and the count
StartEncoder_mut(e, tl, count) == e

StartEncoder(e, tl, count) ==
    e \cup {[session |-> tl[1], count |-> count, state |-> "running"]}

\* the session record startTimelapse stores
NewSession(dir, st) == <<[currentDir |-> dir, jobID |-> st.JobID, jobName |-> jobName(st)]>>

\* os.ReadDir of a session directory
ReadDir(d) == SortEntries(dirs[d])

(***************************************************************************)
(* The state-machine goroutine: initTimelapse -> handleTimelapse.          *)
(***************************************************************************)
\* handleTimelapse, line 68: status, err := c.prusalink.JobStatus(ctx)
TickPoll(r) ==
    /\ ~crashed /\ tpc = "sleep"
    /\ poll' = r
    /\ tpc' = "polled"
    /\ UNCHANGED <<tlVars, status, tmpDir, shot, cpI, snap, histVars, cacheVars>>
    /\ UNCHANGED auxVars

\* handleTimelapse, lines 69-98: the error return, the write lock and the
\* branch on tlRunning; the lock is released by the deferred Unlock on return
TickDispatch ==
    /\ ~crashed /\ tpc = "polled"
    /\ poll' = PollOk(ZeroStatus)
    /\ IF poll.err
       THEN /\ tpc' = "sleep"
            /\ UNCHANGED <<rwLocked, status>>
       ELSE IF ~tlRunning
       THEN IF poll.st.Online /\ timelapseShouldStart(poll.st.State)
            THEN /\ tpc' = "st_mkdir"
                 /\ rwLocked' = TRUE
                 /\ status' = poll.st
            ELSE /\ tpc' = "sleep"
                 /\ UNCHANGED <<rwLocked, status>>
       ELSE IF timelapseShouldStop(poll.st.State)
            THEN /\ tpc' = "fin_stop"
                 /\ rwLocked' = TRUE
                 /\ UNCHANGED status
            ELSE /\ tpc' = "sleep"
                 /\ UNCHANGED <<rwLocked, status>>
    /\ UNCHANGED <<tlRunning, timelapse, rpicamMutex, proc, cancelled, waited,
                   capturing, dirs, crashed, tmpDir, shot, cpI, snap, histVars,
                   cacheVars>>
    /\ UNCHANGED auxVars

\* startTimelapse, lines 120-124: os.MkdirTemp
StMkdir(ok) ==
    /\ ~crashed /\ tpc = "st_mkdir"
    /\ IF ok
       THEN /\ Len(dirs) < MaxDirs
            /\ dirs' = Append(dirs, {})
            /\ tmpDir' = Len(dirs) + 1
            /\ tpc' = "st_wait"
            /\ UNCHANGED <<rwLocked, status>>
       ELSE /\ tpc' = "sleep"
            /\ rwLocked' = FALSE
            /\ status' = ZeroStatus
            /\ UNCHANGED <<dirs, tmpDir>>
    /\ UNCHANGED <<tlRunning, timelapse, rpicamMutex, proc, cancelled, waited,
                   capturing, crashed, poll, shot, cpI, snap, histVars, cacheVars>>
    /\ UNCHANGED auxVars

\* startTimelapse, lines 130-132: progress noted, leave the waiting loop
StProgress ==
    /\ ~crashed /\ tpc = "st_wait"
    /\ ProgressStarted(status)
    /\ tpc' = "st_lock"
    /\ UNCHANGED <<tlVars, poll, status, tmpDir, shot, cpI, snap, histVars, cacheVars>>
    /\ UNCHANGED auxVars

\* startTimelapse, lines 133-145: 15 s later poll again; ctx is
\* context.Background(), so ctx.Done() never fires; a failed poll leaves an
\* empty status
StSubPoll(r) ==
    /\ ~crashed /\ tpc = "st_wait"
    /\ ~ProgressStarted(status)
    /\ status' = IF r.err THEN ZeroStatus ELSE r.st
    /\ UNCHANGED <<tlVars, tpc, poll, tmpDir, shot, cpI, snap, histVars, cacheVars>>
    /\ UNCHANGED auxVars

\* startTimelapse, lines 157-188: rpicamMutex.Lock() blocks until the mutex
\* is free; then cmd.Start(): on success the session is stored, on failure
\* the context is cancelled; the locals status and tmpDir are not read again.
\* Lines 163-171: with loglevel "debug" a goroutine started before cmd.Start()
\* calls cmd.Wait(); it runs before Start (early: "exec: not started") or
\* after it (it waits for the process)
StStart(ok, early) ==
    /\ ~crashed /\ tpc = "st_lock"
    /\ Lock(rpicamMutex)
    /\ rpicamMutex' = "tick"
    /\ IF ok
       THEN /\ proc' = "running"
            /\ cancelled' = FALSE
            /\ waited' = FALSE
            /\ timelapse' = NewSession(tmpDir, status)
            /\ nStart' = nStart + 1
       ELSE /\ cancelled' = TRUE
            /\ UNCHANGED <<proc, waited, timelapse, nStart>>
    /\ tlRunning' = RunningAfterStart(ok, tlRunning)
    /\ tpc' = "st_ret"
    /\ status' = ZeroStatus
    /\ tmpDir' = 0
    /\ UNCHANGED <<rwLocked, capturing, dirs, crashed, poll, shot, cpI, snap, nBuild,
                   built, cacheVars>>
    /\ dbg' = IF debug /\ ok /\ ~early THEN "waiting" ELSE "none"
    /\ UNCHANGED <<debug, fnArg, fnRes, enc>>

\* startTimelapse returns: the deferred rpicamMutex.Unlock() (line 158);
\* handleTimelapse still holds the write lock
StReturn ==
    /\ ~crashed /\ tpc = "st_ret"
    /\ rpicamMutex' = "free"
    /\ tpc' = "ht_ret"
    /\ UNCHANGED <<tlRunning, timelapse, rwLocked, proc, cancelled, waited, capturing,
                   dirs, crashed, poll, status, tmpDir, shot, cpI, snap, histVars,
                   cacheVars>>
    /\ UNCHANGED auxVars

\* handleTimelapse, lines 87-88, returns after startTimelapse: its deferred
\* RWMutex.Unlock() runs (line 75)
HandleReturn ==
    /\ ~crashed /\ tpc = "ht_ret"
    /\ rwLocked' = FALSE
    /\ tpc' = "sleep"
    /\ UNCHANGED <<tlRunning, timelapse, rpicamMutex, proc, cancelled, waited,
                   capturing, dirs, crashed, poll, status, tmpDir, shot, cpI, snap,
                   histVars, cacheVars>>
    /\ UNCHANGED auxVars

(***************************************************************************)
(* The continuous capture process (rpicam-still --timelapse --timeout 0).  *)
(***************************************************************************)
\* an entry of a session directory that is not a frame: a file named "tmp"
ForeignFile == Entry(<<"t", "m", "p">>, FALSE)

\* the process writes its next frame image%06d.jpg into the session directory
WriteFrame ==
    /\ ~crashed /\ proc = "running"
    /\ LET d == timelapse[1].currentDir
           n == Cardinality(dirs[d] \ {ForeignFile})
       IN /\ n < MaxFrames
          /\ dirs' = [dirs EXCEPT ![d] = @ \cup {Entry(frameFilename(n), FALSE)}]
    /\ UNCHANGED <<tlRunning, timelapse, rwLocked, rpicamMutex, proc, cancelled, waited,
                   capturing, crashed, tickVars, snap, histVars, cacheVars>>
    /\ UNCHANGED auxVars

\* the process ends: killed through its cancelled context, or by itself
ProcExit ==
    /\ ~crashed /\ proc = "running"
    /\ proc' = "exited"
    /\ UNCHANGED <<tlRunning, timelapse, rwLocked, rpicamMutex, cancelled, waited,
                   capturing, dirs, crashed, tickVars, snap, histVars, cacheVars>>
    /\ UNCHANGED auxVars

\* the file system: something other than the service puts a file that is
\* not a frame into the directory of the running session (it is a directory
\* under os.TempDir()) while the capture process runs
ForeignEntry ==
    /\ ~crashed /\ tlRunning /\ timelapse # <<>> /\ proc = "running"
    /\ LET d == timelapse[1].currentDir
       IN /\ ForeignFile \notin dirs[d]
          /\ dirs' = [dirs EXCEPT ![d] = @ \cup {ForeignFile}]
    /\ UNCHANGED <<tlRunning, timelapse, rwLocked, rpicamMutex, proc, cancelled, waited,
                   capturing, crashed, tickVars, snap, histVars, cacheVars>>
    /\ UNCHANGED auxVars

\* the debug goroutine's cmd.Wait() returns: the process has exited and no
\* other Wait is in progress
DbgReturn ==
    /\ ~crashed /\ dbg = "waiting" /\ tpc # "fin_waiting"
    /\ WaitReturns(proc)
    /\ dbg' = "done"
    /\ UNCHANGED <<tlVars, tickVars, snap, histVars, cacheVars, debug, fnArg, fnRes, enc>>

(***************************************************************************)
(* finishTimelapse (called by handleTimelapse with the write lock held).   *)
(***************************************************************************)
\* what handleTimelapse's deferred Unlock leaves when finishTimelapse returns
FinishReturns ==
    /\ tpc' = "sleep"
    /\ rwLocked' = FALSE
    /\ shot' = NoShot
    /\ cpI' = 0

\* line 196: c.timelapse.timelapseStop() cancels the process's context
FinStop ==
    /\ ~crashed /\ tpc = "fin_stop"
    /\ cancelled' = TRUE
    /\ tpc' = "fin_wait"
    /\ UNCHANGED <<tlRunning, timelapse, rwLocked, rpicamMutex, proc, waited, capturing,
                   dirs, crashed, poll, status, tmpDir, shot, cpI, snap, histVars,
                   cacheVars>>
    /\ UNCHANGED auxVars

\* line 197: c.timelapse.timelapseCommand.Wait() returns once the process has
\* exited (at once, with an error, when it was already waited for)
FinWait ==
    /\ ~crashed /\ tpc = "fin_wait"
    /\ dbg # "waiting"
    /\ WaitReturns(proc)
    /\ waited' = TRUE
    /\ tpc' = "fin_list"
    /\ UNCHANGED <<tlRunning, timelapse, rwLocked, rpicamMutex, proc, cancelled,
                   capturing, dirs, crashed, poll, status, tmpDir, shot, cpI, snap,
                   histVars, cacheVars>>
    /\ UNCHANGED auxVars

\* line 197 while the debug goroutine is inside cmd.Wait(): this Wait passes
\* the "already called" test (ProcessState is still nil) and waits as well
FinWaitEnter ==
    /\ ~crashed /\ tpc = "fin_wait"
    /\ dbg = "waiting"
    /\ tpc' = "fin_waiting"
    /\ UNCHANGED <<tlVars, poll, status, tmpDir, shot, cpI, snap, histVars, cacheVars,
                   auxVars>>

\* both Waits see the process exit; the one result of the context watcher
\* (c.ctxResult) is received by one of them, the other Wait never returns
FinWaitRace(win) ==
    /\ ~crashed /\ tpc = "fin_waiting"
    /\ WaitReturns(proc)
    /\ IF win
       THEN /\ waited' = TRUE
            /\ tpc' = "fin_list"
            /\ dbg' = "hung"
       ELSE /\ tpc' = "fin_hung"
            /\ dbg' = "done"
            /\ UNCHANGED waited
    /\ UNCHANGED <<tlRunning, timelapse, rwLocked, rpicamMutex, proc, cancelled,
                   capturing, dirs, crashed, poll, status, tmpDir, shot, cpI, snap,
                   histVars, cacheVars, debug, fnArg, fnRes, enc>>

\* line 197 in a later finishTimelapse on the same exec.Cmd, after the two
\* concurrent Waits of the earlier one both wrote c.ProcessState without
\* synchronisation: when the nil of the Wait that lost the reap was written
\* last, this Wait passes the "already called" test and waits for a second
\* value on c.ctxResult, which never comes (FinWait is the other outcome)
FinWaitAgain ==
    /\ ~crashed /\ tpc = "fin_wait"
    /\ dbg = "hung" /\ waited
    /\ tpc' = "fin_hung"
    /\ UNCHANGED <<tlVars, poll, status, tmpDir, shot, cpI, snap, histVars, cacheVars,
                   auxVars>>

\* lines 204-214: lastTLShotInternal and getShotID; os.ReadDir may fail;
\* either error returns with the session still in place, an index out of
\* range ends the process
FinList(readOk) ==
    /\ ~crashed /\ tpc = "fin_list"
    /\ LET r == IF readOk THEN lastTLShotInternal(ReadDir(timelapse[1].currentDir))
                ELSE ShotError
           id == getShotID(r.name)
       IN IF r.kind = "panic"
          THEN /\ crashed' = TRUE
               /\ tpc' = "fin_panic"
               /\ UNCHANGED <<rwLocked, shot, cpI>>
          ELSE IF r.kind = "err" \/ id.err
          THEN /\ FinishReturns
               /\ UNCHANGED crashed
          ELSE /\ shot' = [name |-> r.name, count |-> r.count, id |-> id.id, err |-> FALSE]
               /\ tpc' = "ls_lock"
               /\ UNCHANGED <<crashed, rwLocked, cpI>>
    /\ UNCHANGED <<tlRunning, timelapse, rpicamMutex, proc, cancelled, waited,
                   capturing, dirs, poll, status, tmpDir, snap, histVars, cacheVars>>
    /\ UNCHANGED auxVars

\* takeLastShot(ctx, dir, id, count/10), lines 334-339: rpicamMutex.Lock()
\* blocks until the mutex is free, then rpicam-still is run
LsLock ==
    /\ ~crashed /\ tpc = "ls_lock"
    /\ Lock(rpicamMutex)
    /\ rpicamMutex' = "tick"
    /\ capturing' = capturing \cup {"tick"}
    /\ tpc' = "ls_cap"
    /\ UNCHANGED <<tlRunning, timelapse, rwLocked, proc, cancelled, waited, dirs,
                   crashed, poll, status, tmpDir, shot, cpI, snap, histVars, cacheVars>>
    /\ UNCHANGED auxVars

\* lines 339-345: the one-shot process ends; on success it wrote the file
\* shotFilename(dir, lastID) and the copy loop starts at i = lastID
LsCapEnd(ok) ==
    /\ ~crashed /\ tpc = "ls_cap"
    /\ capturing' = capturing \ {"tick"}
    /\ LET d == timelapse[1].currentDir
       IN IF ok
          THEN /\ dirs' = [dirs EXCEPT ![d] = @ \cup {Entry(shotFilename(d, shot.id).name, FALSE)}]
               /\ cpI' = shot.id
               /\ tpc' = "ls_cp"
               /\ UNCHANGED shot
          ELSE /\ tpc' = "ls_ret"
               /\ shot' = [shot EXCEPT !.err = TRUE]
               /\ UNCHANGED <<dirs, cpI>>
    /\ UNCHANGED <<tlRunning, timelapse, rwLocked, rpicamMutex, proc, cancelled, waited,
                   crashed, poll, status, tmpDir, snap, histVars, cacheVars>>
    /\ UNCHANGED auxVars

\* lines 345-353: for i := lastID; i < lastID+count+1; i++ { cp name shotFilename(dir, i) };
\* cp refuses to copy a file onto itself, any failure returns
LsCp(ok) ==
    /\ ~crashed /\ tpc = "ls_cp"
    /\ LET d == timelapse[1].currentDir
           src == shotFilename(d, shot.id)
           dst == shotFilename(d, cpI)
       IN IF ~(cpI < shot.id + (shot.count \div HoldDivisor) + 1)
          THEN /\ tpc' = "ls_ret"
               /\ UNCHANGED <<dirs, cpI, shot>>
          ELSE IF src = dst \/ ~ok
          THEN /\ tpc' = "ls_ret"
               /\ shot' = [shot EXCEPT !.err = TRUE]
               /\ UNCHANGED <<dirs, cpI>>
          ELSE /\ dirs' = [dirs EXCEPT ![d] = @ \cup {Entry(dst.name, FALSE)}]
               /\ cpI' = cpI + 1
               /\ UNCHANGED <<tpc, shot>>
    /\ UNCHANGED <<tlRunning, timelapse, rwLocked, rpicamMutex, proc, cancelled, waited,
                   capturing, crashed, poll, status, tmpDir, snap, histVars,
                   cacheVars>>
    /\ UNCHANGED auxVars

\* finishTimelapse, lines 216-220: where it goes on after takeLastShot
\* returned: an error is logged ("we still can do a timelapse")
AfterLastShot_mut(err) == IF err THEN "fin_abort" ELSE "fin_build"

AfterLastShot(err) == "fin_build"

\* takeLastShot returns: the deferred rpicamMutex.Unlock() (line 335)
LsReturn ==
    /\ ~crashed /\ tpc = "ls_ret"
    /\ rpicamMutex' = "free"
    /\ tpc' = AfterLastShot(shot.err)
    /\ UNCHANGED <<tlRunning, timelapse, rwLocked, proc, cancelled, waited, capturing,
                   dirs, crashed, poll, status, tmpDir, shot, cpI, snap, histVars,
                   cacheVars>>
    /\ UNCHANGED auxVars

\* lines 222-228: go c.buildVideo(c.timelapse, count); the session is cleared
FinBuild ==
    /\ ~crashed /\ tpc = "fin_build"
    /\ nBuild' = nBuild + 1
    /\ built' = <<[dir |-> timelapse[1].currentDir, count |-> shot.count, err |-> shot.err]>>
    /\ tlRunning' = FALSE
    /\ timelapse' = ClearedSession(timelapse)
    /\ FinishReturns
    /\ enc' = StartEncoder(enc, timelapse, shot.count)
    /\ UNCHANGED <<rpicamMutex, proc, cancelled, waited, capturing, dirs, crashed,
                   poll, status, tmpDir, snap, nStart, cacheVars>>
    /\ UNCHANGED <<debug, dbg, fnArg, fnRes>>

\* buildVideo, lines 237-269: the goroutine ends; ffmpeg has written the video,
\* or it failed or was killed by the 10-minute context, which is only logged
BuildVideoEnd(e, ok) ==
    /\ ~crashed
    /\ e \in enc /\ e.state = "running"
    /\ enc' = (enc \ {e}) \cup {[e EXCEPT !.state = IF ok THEN "done" ELSE "failed"]}
    /\ UNCHANGED <<tlVars, tickVars, snap, histVars, cacheVars>>
    /\ UNCHANGED <<debug, dbg, fnArg, fnRes>>

(***************************************************************************)
(* rpiCamera.Snapshot.                                                     *)
(***************************************************************************)
\* a request arrives; line 49: isTimelapseRunning() reads tlRunning under the
\* read lock, which waits while handleTimelapse holds the write lock
SnapCheck(s) ==
    /\ ~crashed /\ snap[s].pc = "idle"
    /\ ~rwLocked
    /\ snap' = [snap EXCEPT ![s] = [SnapIdle EXCEPT !.pc = SnapshotBranch(tlRunning),
                                                    !.running = tlRunning]]
    /\ UNCHANGED <<tlVars, tickVars, histVars, cacheVars>>
    /\ UNCHANGED auxVars

\* takeShot, lines 92-100: TryLock; a locked mutex is the error
\* "mutex is locked", otherwise rpicam-still is run
SnapTryLock(s) ==
    /\ ~crashed /\ snap[s].pc = "take"
    /\ IF TryLock(rpicamMutex)
       THEN /\ rpicamMutex' = s
            /\ capturing' = capturing \cup {s}
            /\ snap' = [snap EXCEPT ![s].pc = "cap", ![s].locked = TRUE]
       ELSE /\ snap' = [snap EXCEPT ![s].pc = "done", ![s].res = "busy"]
            /\ UNCHANGED <<rpicamMutex, capturing>>
    /\ UNCHANGED <<tlRunning, timelapse, rwLocked, proc, cancelled, waited, dirs,
                   crashed, tickVars, histVars, cacheVars>>
    /\ UNCHANGED auxVars

\* takeShot, lines 100-106: the one-shot process ends and the deferred Unlock
\* runs; Snapshot, lines 61-65: the file it wrote is read with os.ReadFile
SnapCapEnd(s, ok, readOk) ==
    /\ ~crashed /\ snap[s].pc = "cap"
    /\ capturing' = capturing \ {s}
    /\ rpicamMutex' = "free"
    /\ snap' = [snap EXCEPT ![s].pc = "done",
                            ![s].res = IF ~ok THEN "capture failed"
                                       ELSE IF readOk THEN "ok" ELSE "read failed"]
    /\ UNCHANGED <<tlRunning, timelapse, rwLocked, proc, cancelled, waited, dirs,
                   crashed, tickVars, histVars, cacheVars>>
    /\ UNCHANGED auxVars

\* LastTLShot, lines 287-293: the session's directory read under the read lock
SnapLast(s) ==
    /\ ~crashed /\ snap[s].pc = "last"
    /\ ~rwLocked
    /\ snap' = IF SessionDir(timelapse) = -1
               THEN [snap EXCEPT ![s].pc = "done", ![s].res = "no timelapse"]
               ELSE [snap EXCEPT ![s].pc = "list", ![s].dir = SessionDir(timelapse)]
    /\ UNCHANGED <<tlVars, tickVars, histVars, cacheVars>>
    /\ UNCHANGED auxVars

\* LastTLShot, line 294: lastTLShotInternal(dir), outside the read lock;
\* Snapshot, lines 61-65: the file found is read with os.ReadFile.
\* A panic of lastTLShotInternal ends the process when the request comes
\* from the prusaConnectSender goroutine; in a handler of the HTTP server
\* (/snapshot, /forcesend) net/http recovers it and closes the connection
SnapLastList(s, listOk, readOk) ==
    /\ ~crashed /\ snap[s].pc = "list"
    /\ LET r == IF listOk THEN lastTLShotInternal(ReadDir(snap[s].dir)) ELSE ShotError
       IN IF r.kind = "panic"
          THEN \E http \in BOOLEAN :
                  IF http
                  THEN /\ snap' = [snap EXCEPT ![s].pc = "done", ![s].dir = -1,
                                               ![s].res = "panic"]
                       /\ UNCHANGED crashed
                  ELSE /\ crashed' = TRUE
                       /\ UNCHANGED snap
          ELSE /\ snap' = [snap EXCEPT ![s].pc = "done",
                                       ![s].dir = -1,
                                       ![s].res = IF r.kind = "err" THEN "no shot"
                                                  ELSE IF readOk THEN "ok" ELSE "read failed"]
               /\ UNCHANGED crashed
    /\ UNCHANGED <<tlRunning, timelapse, rwLocked, rpicamMutex, proc, cancelled, waited,
                   capturing, dirs, tickVars, histVars, cacheVars>>
    /\ UNCHANGED auxVars

\* the request has returned
SnapReturn(s) ==
    /\ ~crashed /\ snap[s].pc = "done"
    /\ snap' = [snap EXCEPT ![s] = SnapIdle]
    /\ UNCHANGED <<tlVars, tickVars, histVars, cacheVars>>
    /\ UNCHANGED auxVars

(***************************************************************************)
(* prusaLinkClient: JobStatus and its single-entry cache.                  *)
(***************************************************************************)
\* what the request of jobStatus can meet: httpClient.Do fails ("do"),
\* io.ReadAll of the body fails ("body"), or a response arrives ("resp");
\* timeout says that the failure is the request's deadline (the context's
\* 10 s or the client's Timeout), for which errors.Is(err,
\* context.DeadlineExceeded) holds
Outcome(stage, timeout, code, body) ==
    [stage |-> stage, timeout |-> timeout, code |-> code, body |-> body]

\* response bodies: a job description, and something that is not JSON
JobBody ==
    [valid |-> TRUE, id |-> 17, state |-> StatusPrinting, progress |-> 50,
     file |-> [name |-> "BRACKE~1.GCO", display_name |-> "bracket.gcode",
               path |-> "/usb"]]
BadBody ==
    [valid |-> FALSE, id |-> 0, state |-> "", progress |-> 0,
     file |-> [name |-> "", display_name |-> "", path |-> ""]]

OutcomeInputs ==
    {Outcome("do", t, 0, BadBody) : t \in BOOLEAN} \cup
    {Outcome("body", t, 200, BadBody) : t \in BOOLEAN} \cup
    {Outcome("resp", FALSE, 200, b) : b \in {JobBody, BadBody}} \cup
    {Outcome("resp", FALSE, c, BadBody) : c \in {204, 404}}

\* parseJobResponse: json.Unmarshal, then the fields of Status
parseJobResponse(body) ==
    IF ~body.valid THEN PollErr
    ELSE PollOk(Status(TRUE, body.id, body.file.display_name, body.state, body.progress))

\* jobStatus, lines 112-118: a failed httpClient.Do is the offline status when
\* it is the deadline, an error otherwise
DoFailure(timeout) == IF timeout THEN PollOk(ZeroStatus) ELSE PollErr

\* jobStatus, lines 99-140
jobStatus(o) ==
    IF o.stage = "do" THEN DoFailure(o.timeout)
    ELSE IF o.stage = "body" THEN PollErr
    ELSE IF o.code = 200 THEN parseJobResponse(o.body)
    ELSE IF o.code = 204 THEN PollOk(NoJobStatus)
    ELSE PollErr

\* jobStatusFromCache, line 156: c.cachedTime.Before(time.Now().Add(10 * time.Second))
CacheExpired_mut(ct, t) == ct > t + TTL

CacheExpired(ct, t) == ct < t + TTL

\* no remote call made
NoOutcome == Outcome("none", FALSE, 0, BadBody)

\* a caller of JobStatus: position; the result (st, err); whether it was served
\* from the cache (hit); the age of the entry its lookup met (-1: no entry);
\* whether, when it looked, an earlier call had returned a status less than
\* TTL ago with no failure since (fresh) and the entry served is that status
\* (agree); out is the outcome of its remote call
CallIdle ==
    [pc |-> "idle", st |-> ZeroStatus, err |-> FALSE, hit |-> FALSE, age |-> -1,
     fresh |-> FALSE, agree |-> FALSE, out |-> NoOutcome]

\* jobStatusFromCache, lines 155-160: the entry left in the cache
CacheEntry == IF CacheExpired(cachedTime, now) THEN <<>> ELSE cachedStatus

\* JobStatus, lines 85-88, with jobStatusFromCache, lines 151-161
Lookup(c) ==
    /\ call[c].pc \in {"idle", "done"}
    /\ LET fresh == lastGood # <<>> /\ now - cachedTime < TTL
           met == [CallIdle EXCEPT !.fresh = fresh,
                                   !.age = IF cachedStatus # <<>> THEN now - cachedTime ELSE -1]
       IN /\ cachedStatus' = CacheEntry
          /\ call' = [call EXCEPT ![c] =
                        IF CacheEntry # <<>>
                        THEN [met EXCEPT !.pc = "done", !.hit = TRUE, !.st = CacheEntry[1],
                                         !.agree = fresh /\ lastGood = CacheEntry]
                        ELSE [met EXCEPT !.pc = "remote"]]
    /\ UNCHANGED <<cachedTime, now, nCalls, lastGood>>
    /\ UNCHANGED <<tlVars, tickVars, snap, histVars>>
    /\ UNCHANGED auxVars

\* JobStatus, lines 90-93: the remote call; an error is returned as it is
Remote(c, o) ==
    /\ call[c].pc = "remote"
    /\ nCalls < MaxCalls
    /\ nCalls' = nCalls + 1
    /\ LET r == jobStatus(o)
       IN /\ call' = [call EXCEPT ![c].pc = IF r.err THEN "done" ELSE "store",
                                  ![c].st = r.st, ![c].err = r.err, ![c].out = o]
          /\ lastGood' = IF r.err THEN <<>> ELSE lastGood
    /\ UNCHANGED <<cachedStatus, cachedTime, now>>
    /\ UNCHANGED <<tlVars, tickVars, snap, histVars>>
    /\ UNCHANGED auxVars

\* JobStatus, lines 95-96, with jobStatusToCache, lines 142-149
Store(c) ==
    /\ call[c].pc = "store"
    /\ cachedStatus' = <<call[c].st>>
    /\ cachedTime' = now
    /\ lastGood' = <<call[c].st>>
    /\ call' = [call EXCEPT ![c].pc = "done"]
    /\ UNCHANGED <<now, nCalls>>
    /\ UNCHANGED <<tlVars, tickVars, snap, histVars>>
    /\ UNCHANGED auxVars

\* a second passes
Advance ==
    /\ now < MaxTime
    /\ now' = now + 1
    /\ UNCHANGED <<cachedStatus, cachedTime, call, nCalls, lastGood>>
    /\ UNCHANGED <<tlVars, tickVars, snap, histVars>>
    /\ UNCHANGED auxVars

CacheInit ==
    /\ cachedStatus = <<>>
    /\ cachedTime = -1
    /\ now = 0
    /\ call = [c \in Callers |-> CallIdle]
    /\ nCalls = 0
    /\ lastGood = <<>>

(***************************************************************************)
(* The camera specification.                                               *)
(***************************************************************************)
BaseInit ==
    /\ tlRunning = FALSE
    /\ timelapse = <<>>
    /\ rwLocked = FALSE
    /\ rpicamMutex = "free"
    /\ proc = "none"
    /\ cancelled = FALSE
    /\ waited = FALSE
    /\ capturing = {}
    /\ dirs = <<>>
    /\ tpc = "sleep"
    /\ poll = PollOk(ZeroStatus)
    /\ status = ZeroStatus
    /\ tmpDir = 0
    /\ shot = NoShot
    /\ cpI = 0
    /\ snap = [s \in Snaps |-> SnapIdle]
    /\ crashed = FALSE
    /\ nStart = 0
    /\ nBuild = 0
    /\ built = <<>>
    /\ dbg = "none"
    /\ enc = {}
    /\ CacheInit

\* the service with the default configuration (loglevel "info")
Init ==
    /\ BaseInit
    /\ debug = FALSE
    /\ fnArg = <<>>
    /\ fnRes = <<>>

Next ==
    \/ \E r \in PollInputs : TickPoll(r)
    \/ TickDispatch
    \/ \E ok \in BOOLEAN : StMkdir(ok)
    \/ StProgress
    \/ \E r \in PollInputs : StSubPoll(r)
    \/ \E ok \in BOOLEAN, early \in BOOLEAN : StStart(ok, early)
    \/ StReturn
    \/ HandleReturn
    \/ WriteFrame
    \/ ProcExit
    \/ FinStop
    \/ FinWait
    \/ \E ok \in BOOLEAN : FinList(ok)
    \/ LsLock
    \/ \E ok \in BOOLEAN : LsCapEnd(ok)
    \/ \E ok \in BOOLEAN : LsCp(ok)
    \/ LsReturn
    \/ FinBuild
    \/ \E s \in Snaps : SnapCheck(s)
    \/ \E s \in Snaps : SnapTryLock(s)
    \/ \E s \in Snaps, ok \in BOOLEAN, readOk \in BOOLEAN : SnapCapEnd(s, ok, readOk)
    \/ \E s \in Snaps : SnapLast(s)
    \/ \E s \in Snaps, listOk \in BOOLEAN, readOk \in BOOLEAN : SnapLastList(s, listOk, readOk)
    \/ \E s \in Snaps : SnapReturn(s)

Spec == Init /\ [][Next]_vars

(***************************************************************************)
(* The camera specification with either loglevel, one snapshot client and  *)
(* a file system in which the session directory can receive foreign files. *)
(***************************************************************************)
InitDebug ==
    /\ BaseInit
    /\ debug \in BOOLEAN
    /\ fnArg = <<>>
    /\ fnRes = <<>>

NextDebug ==
    \/ \E r \in PollInputs : TickPoll(r)
    \/ TickDispatch
    \/ \E ok \in BOOLEAN : StMkdir(ok)
    \/ StProgress
    \/ \E r \in PollInputs : StSubPoll(r)
    \/ \E ok \in BOOLEAN, early \in BOOLEAN : StStart(ok, early)
    \/ StReturn
    \/ HandleReturn
    \/ WriteFrame
    \/ ProcExit
    \/ DbgReturn
    \/ FinStop
    \/ FinWait
    \/ FinWaitEnter
    \/ \E win \in BOOLEAN : FinWaitRace(win)
    \/ FinWaitAgain
    \/ \E ok \in BOOLEAN : FinList(ok)
    \/ LsLock
    \/ \E ok \in BOOLEAN : LsCapEnd(ok)
    \/ \E ok \in BOOLEAN : LsCp(ok)
    \/ LsReturn
    \/ FinBuild
    \/ SnapCheck("s1")
    \/ SnapTryLock("s1")
    \/ \E ok \in BOOLEAN, readOk \in BOOLEAN : SnapCapEnd("s1", ok, readOk)
    \/ SnapLast("s1")
    \/ \E listOk \in BOOLEAN, readOk \in BOOLEAN : SnapLastList("s1", listOk, readOk)
    \/ SnapReturn("s1")
    \/ ForeignEntry

SpecDebug == InitDebug /\ [][NextDebug]_vars

(***************************************************************************)
(* The camera specification with the video encoders: loglevel "info", one  *)
(* snapshot client, and the buildVideo goroutines running to their end.    *)
(***************************************************************************)
NextEncode ==
    \/ \E r \in PollInputs : TickPoll(r)
    \/ TickDispatch
    \/ \E ok \in BOOLEAN : StMkdir(ok)
    \/ StProgress
    \/ \E r \in PollInputs : StSubPoll(r)
    \/ \E ok \in BOOLEAN, early \in BOOLEAN : StStart(ok, early)
    \/ StReturn
    \/ HandleReturn
    \/ WriteFrame
    \/ ProcExit
    \/ FinStop
    \/ FinWait
    \/ \E ok \in BOOLEAN : FinList(ok)
    \/ LsLock
    \/ \E ok \in BOOLEAN : LsCapEnd(ok)
    \/ \E ok \in BOOLEAN : LsCp(ok)
    \/ LsReturn
    \/ FinBuild
    \/ \E e \in enc, ok \in BOOLEAN : BuildVideoEnd(e, ok)
    \/ SnapCheck("s1")
    \/ SnapTryLock("s1")
    \/ \E ok \in BOOLEAN, readOk \in BOOLEAN : SnapCapEnd("s1", ok, readOk)
    \/ SnapLast("s1")
    \/ \E listOk \in BOOLEAN, readOk \in BOOLEAN : SnapLastList("s1", listOk, readOk)
    \/ SnapReturn("s1")

SpecEncode == Init /\ [][NextEncode]_vars

(***************************************************************************)
(* The client specification.                                               *)
(***************************************************************************)
NextCache ==
    \/ \E c \in Callers : Lookup(c)
    \/ \E c \in Callers, o \in OutcomeInputs : Remote(c, o)
    \/ \E c \in Callers : Store(c)
    \/ Advance

SpecCache == Init /\ [][NextCache]_vars

(***************************************************************************)
(* buildVideo's frame rate on its own: every count and configuration       *)
(* within the bounds.                                                      *)
(***************************************************************************)
FPSInputs ==
    [count : 0..MaxCount, videoLenght : 1..MaxVideoLenght, minFPS : 0..MaxMinFPS]

InitFPS ==
    /\ BaseInit
    /\ debug = FALSE
    /\ fnArg \in {<<a>> : a \in FPSInputs}
    /\ fnRes = <<>>

\* buildVideo, lines 238-239
BuildVideoFPS ==
    /\ fnArg # <<>> /\ fnRes = <<>>
    /\ fnRes' = <<fps(fnArg[1].count, fnArg[1].videoLenght, fnArg[1].minFPS)>>
    /\ UNCHANGED <<tlVars, tickVars, snap, histVars, cacheVars, debug, dbg, fnArg, enc>>

NextFPS == BuildVideoFPS

SpecFPS == InitFPS /\ [][NextFPS]_vars

(***************************************************************************)
(* lastTLShotInternal on its own: every listing os.ReadDir can return for  *)
(* a directory made of the entries below.                                  *)
(***************************************************************************)
\* two captured frames, the final shot, other files, and sub-directories
\* (one of them named like a frame)
ListingEntries ==
    {Entry(frameFilename(0), FALSE), Entry(frameFilename(1), FALSE),
     Entry(shotFilename(1, 1).name, FALSE),
     ForeignFile, Entry(<<"a">>, FALSE),
     Entry(<<"t", ".", "j", "p", "g">>, TRUE), Entry(<<"x">>, TRUE)}

ListingInputs ==
    {SortEntries(S) : S \in {T \in SUBSET ListingEntries : Cardinality(T) <= MaxEntries}}

InitList ==
    /\ BaseInit
    /\ debug = FALSE
    /\ fnArg \in {<<files>> : files \in ListingInputs}
    /\ fnRes = <<>>

\* lastTLShotInternal, lines 304-311, on the listing
ListLastShot ==
    /\ fnArg # <<>> /\ fnRes = <<>>
    /\ fnRes' = <<lastTLShotInternal(fnArg[1])>>
    /\ UNCHANGED <<tlVars, tickVars, snap, histVars, cacheVars, debug, dbg, fnArg, enc>>

NextList == ListLastShot

SpecList == InitList /\ [][NextList]_vars

(***************************************************************************)
(* The job-state classification on its own: each of the three functions    *)
(* applied to a state string.                                              *)
(***************************************************************************)
\* the nine printer states, the empty string and strings that are no state
\* (the comparison is exact: case and blanks matter)
ClassInputs == StateInputs \cup {"printing", "UNKNOWN", "PRINTING "}

\* no function applied yet
NoClass == [start |-> <<>>, running |-> <<>>, stop |-> <<>>]

InitClass ==
    /\ BaseInit
    /\ debug = FALSE
    /\ fnArg \in {<<st>> : st \in ClassInputs}
    /\ fnRes = <<NoClass>>

ClassifyStart ==
    /\ fnRes # <<>> /\ fnRes[1].start = <<>>
    /\ fnRes' = <<[fnRes[1] EXCEPT !.start = <<timelapseShouldStart(fnArg[1])>>]>>
    /\ UNCHANGED <<tlVars, tickVars, snap, histVars, cacheVars, debug, dbg, fnArg, enc>>

ClassifyRunning ==
    /\ fnRes # <<>> /\ fnRes[1].running = <<>>
    /\ fnRes' = <<[fnRes[1] EXCEPT !.running = <<timelapseShouldBeRunning(fnArg[1])>>]>>
    /\ UNCHANGED <<tlVars, tickVars, snap, histVars, cacheVars, debug, dbg, fnArg, enc>>

ClassifyStop ==
    /\ fnRes # <<>> /\ fnRes[1].stop = <<>>
    /\ fnRes' = <<[fnRes[1] EXCEPT !.stop = <<timelapseShouldStop(fnArg[1])>>]>>
    /\ UNCHANGED <<tlVars, tickVars, snap, histVars, cacheVars, debug, dbg, fnArg, enc>>

NextClass == ClassifyStart \/ ClassifyRunning \/ ClassifyStop

SpecClass == InitClass /\ [][NextClass]_vars

(***************************************************************************)
(* Properties of the camera specification (Spec).                          *)
(***************************************************************************)
\* the rpicam-still processes alive: one-shot captures and the continuous one
CaptureProcesses == Cardinality(capturing) + (IF proc = "running" THEN 1 ELSE 0)

\* C1: at most one capture process (a one-shot still capture, the continuous
\* time-lapse process or the final-shot capture) runs against the camera at
\* any instant, under every interleaving of snapshots and ticks.
C1_OneCaptureProcess == CaptureProcesses <= 1

\* C2: while the continuous capture process has been spawned and
\* finishTimelapse has not yet observed its exit, rpicamMutex is held for the
\* time-lapse, so a TryLock of the snapshot path fails.
C2_LockHeldForTimelapse ==
    (proc # "none" /\ ~waited) => (rpicamMutex = "tick" /\ ~TryLock(rpicamMutex))

\* C3: whenever the session write lock is free, tlRunning is true exactly
\* when the timelapse record is non-nil; startTimelapse is never entered
\* while a session exists; and at most one session exists at any time: the
\* sessions started exceed the sessions cleared by one exactly while a
\* session record exists.
C3_SingleSession ==
    /\ ~rwLocked => (tlRunning <=> timelapse # <<>>)
    /\ tpc \in {"st_mkdir", "st_wait", "st_lock"} => (~tlRunning /\ timelapse = <<>>)
    /\ Len(timelapse) <= 1
    /\ nStart - nBuild = (IF timelapse # <<>> THEN 1 ELSE 0)

\* a second session is running, the first one finished, the lock free
C3_Witness == ~rwLocked /\ tlRunning /\ timelapse # <<>> /\ nBuild >= 1

\* C4: every session that was started goes through exactly one finish and
\* exactly one buildVideo call: when the state machine rests, every started
\* session whose capture process finishTimelapse has stopped is cleared and
\* has had its video built, and at most the running one is left.
C4_OneCyclePerPrint ==
    tpc = "sleep" =>
        IF proc = "none" \/ waited
        THEN ~tlRunning /\ nBuild = nStart
        ELSE tlRunning /\ nBuild = nStart - 1

\* C5: a Snapshot whose running-check saw an active session never locks
\* rpicamMutex and never runs a capture process; it only lists a session
\* directory (LastTLShot) and reads the frame found there.
C5_RunningSnapshotOnlyReads ==
    \A s \in Snaps :
        snap[s].running =>
            /\ ~snap[s].locked
            /\ rpicamMutex # s
            /\ s \notin capturing
            /\ snap[s].pc \in {"last", "list", "done"}
            /\ snap[s].pc = "list" => snap[s].dir \in 1..Len(dirs)
            /\ snap[s].pc = "done" =>
                   snap[s].res \in {"ok", "read failed", "no shot", "no timelapse",
                                    "panic"}

\* a snapshot that saw the session returns a frame while the state machine
\* is inside finishTimelapse
C5_Witness ==
    \E s \in Snaps : snap[s].running /\ snap[s].res = "ok" /\ tpc = "ls_cap"

\* C6: a Snapshot that saw no session and finds rpicamMutex locked by another
\* party fails at once with the busy error: TryLock never waits, no capture
\* process is started and the lock's owner is unchanged.
C6_BusySnapshotFails ==
    /\ [](\A s \in Snaps : (snap[s].pc = "take" /\ ~crashed) => ENABLED SnapTryLock(s))
    /\ [][\A s \in Snaps :
            (snap[s].pc = "take" /\ snap'[s] # snap[s] /\ ~snap[s].running
               /\ rpicamMutex # "free")
            => /\ snap'[s].pc = "done"
               /\ snap'[s].res = "busy"
               /\ ~snap'[s].locked
               /\ rpicamMutex' = rpicamMutex
               /\ capturing' = capturing
               /\ proc' = proc]_vars

\* the machine is Idle, another party still holds the lock, and the request
\* has failed with the busy error
C6_Witness ==
    \E s \in Snaps :
        /\ snap[s].pc = "done" /\ snap[s].res = "busy" /\ ~snap[s].running
        /\ ~tlRunning
        /\ rpicamMutex \notin {"free", s}

\* C10: from Idle, the tick that handles a polled status enters
\* startTimelapse only when the status is online and its state is Printing or
\* Attention; for a STOP state, Paused, Busy, an unknown state or an offline
\* status it returns with no directory or session created, the two locks and
\* the capture processes untouched and no pipeline invoked.
C10_IdleTick ==
    /\ [](tpc = "st_mkdir" =>
            (status.Online /\ status.State \in {StatusPrinting, StatusAttention}))
    /\ [][(tpc = "polled" /\ tpc' # "polled" /\ ~poll.err /\ ~tlRunning)
            => IF poll.st.Online /\ poll.st.State \in {StatusPrinting, StatusAttention}
               THEN tpc' = "st_mkdir"
               ELSE /\ tpc' = "sleep"
                    /\ UNCHANGED <<tlRunning, timelapse, rwLocked, rpicamMutex, proc,
                                   cancelled, waited, capturing, dirs, nStart, nBuild>>]_vars

\* the idle machine is about to handle a Paused status
C10_Witness ==
    /\ tpc = "polled" /\ ~poll.err /\ ~tlRunning
    /\ poll.st.Online /\ poll.st.State = StatusPaused

(***************************************************************************)
(* Properties of the client specification (SpecCache).                     *)
(***************************************************************************)
\* C7: a JobStatus that starts less than TTL after an earlier one returned a
\* status, with no failure in between, is served from the cache (no remote
\* call) and returns that same status.
C7_SecondCallFromCache ==
    \A c \in Callers : call[c].fresh => (call[c].hit /\ call[c].agree)

\* C8: an entry served from the cache was less than TTL old when it was
\* looked up, and a lookup that meets an entry of age TTL or more discards
\* it and does not serve it.
C8_NeverStale ==
    /\ [](\A c \in Callers : call[c].hit => (0 <= call[c].age /\ call[c].age < TTL))
    /\ [][\A c \in Callers :
            (call'[c] # call[c] /\ call[c].pc \in {"idle", "done"}
               /\ cachedStatus # <<>> /\ now - cachedTime >= TTL)
            => (cachedStatus' = <<>> /\ ~call'[c].hit /\ call'[c].pc = "remote")]_vars

\* a lookup met an entry TTL old or older, dropped it and goes to the source
C8_Witness ==
    \E c \in Callers :
        call[c].pc = "remote" /\ call[c].age >= TTL /\ ~call[c].hit /\ cachedStatus = <<>>

\* C9: a remote call that ends in the request's deadline returns the offline
\* status (every other field zero) and no error; any other transport failure
\* and any response code other than 200 and 204 returns an error, and an
\* error is never stored in the cache.
C9_TimeoutIsOffline ==
    \A c \in Callers :
        LET o == call[c].out
        IN /\ (o.stage # "none" /\ o.timeout) =>
                  (~call[c].err /\ call[c].st = ZeroStatus)
           /\ (o.stage \in {"do", "body"} /\ ~o.timeout) => call[c].err
           /\ (o.stage = "resp" /\ o.code \notin {200, 204}) => call[c].err
           /\ call[c].err => call[c].pc = "done"

(***************************************************************************)
(* Further properties of the camera specification (Spec).                  *)
(***************************************************************************)
\* C11: once finishTimelapse has run (the capture process's context is
\* cancelled) and the tick is over, the session is cleared whatever step of
\* the finish failed: tlRunning is false and the timelapse record is nil, so
\* no session with a dead capture process is left behind.
C11_FinishAlwaysClears ==
    (tpc = "sleep" /\ cancelled) => (~tlRunning /\ timelapse = <<>>)

\* the points where the state-machine goroutine is suspended: the 15 s timer
\* of the wait-for-progress loop, rpicamMutex.Lock() on a locked mutex,
\* cmd.Wait() on a live process or a cmd.Wait() that never returns, the
\* final-shot capture and the cp runs
Suspended ==
    \/ tpc = "st_wait" /\ ~(status.Progress > 0)
    \/ tpc \in {"st_lock", "ls_lock"} /\ rpicamMutex # "free"
    \/ tpc \in {"fin_wait", "fin_waiting"} /\ proc = "running"
    \/ tpc = "fin_hung"
    \/ tpc \in {"ls_cap", "ls_cp"}

\* C13: the session write lock is not held while the state machine is
\* suspended in the wait-for-progress loop, waits for rpicamMutex or waits
\* for an external process, so a snapshot's read lock waits no longer than
\* the update of the session record.
C13_WriteLockOnlyForUpdate == Suspended => ~rwLocked

\* C20: while a session runs, the tick that handles a polled status enters
\* finishTimelapse exactly when the state is Idle, Error, Finished, Stopped
\* or Ready; for any other status (offline, Printing, Attention, Paused,
\* Busy, unknown or empty) it returns with the session, the capture process
\* and the locks unchanged.
C20_StopOnlyOnStopState ==
    /\ [](tpc = "fin_stop" => tlRunning)
    /\ [][(tpc = "polled" /\ tpc' # "polled" /\ ~poll.err /\ tlRunning)
            => IF poll.st.State \in {StatusIdle, StatusError, StatusFinished,
                                     StatusStopped, StatusReady}
               THEN tpc' = "fin_stop"
               ELSE /\ tpc' = "sleep"
                    /\ UNCHANGED <<tlRunning, timelapse, rwLocked, rpicamMutex, proc,
                                   cancelled, waited, capturing, dirs, nStart, nBuild>>]_vars

\* a running session is about to handle an offline status
C20_Witness ==
    /\ tpc = "polled" /\ ~poll.err /\ tlRunning /\ proc = "running"
    /\ ~poll.st.Online

\* C19: in startTimelapse the wait-for-progress loop is left only on a status
\* with progress > 0 (the triggering one or one polled in the loop); a failed
\* poll in the loop leaves the empty status, progress 0, and the loop goes
\* on; and the step that starts the capture process is the step that sets
\* tlRunning and stores the session record.
C19_StartAfterProgress ==
    /\ [](tpc = "st_lock" => status.Progress > 0)
    /\ [][/\ (tpc = "st_wait" /\ tpc' # "st_wait")
              => (status.Progress > 0 /\ tpc' = "st_lock")
          /\ (tpc = "st_wait" /\ status'.Progress = 0) => tpc' = "st_wait"
          /\ (proc # "running" /\ proc' = "running")
              => /\ tpc = "st_lock" /\ status.Progress > 0
                 /\ rpicamMutex' = "tick"
                 /\ tlRunning' /\ timelapse' # <<>>]_vars

\* the loop was left on a status polled inside it (a triggering status is
\* never Finished) and the lock is about to be taken
C19_Witness ==
    /\ tpc = "st_lock" /\ status.Progress > 0
    /\ status.State = StatusFinished

\* C16: when takeLastShot has returned, the files it added to the session
\* directory are copies of the last captured frame under the sequence
\* numbers lastID+1 .. lastID + count/10 in the captured frames' pattern
\* image%06d.jpg: nothing is written under lastID or any other number, and
\* all of these copies exist when it returned no error.
C16_HeroFrameCopies ==
    tpc = "fin_build" =>
        LET d == timelapse[1].currentDir
            captured == {frameFilename(k) : k \in 0..shot.id}
            copies == {frameFilename(k) :
                         k \in (shot.id + 1)..(shot.id + (shot.count \div HoldDivisor))}
            written == {e.name : e \in {f \in dirs[d] : IsShot(f)}} \ captured
        IN /\ written \subseteq copies
           /\ ~shot.err => written = copies

\* C17: a failure of the final-shot capture or of a copy only ends
\* takeLastShot: its deferred Unlock frees rpicamMutex, finishTimelapse goes
\* on to buildVideo with the count lastTLShotInternal returned, and the
\* session is cleared in that same step.
C17_HeroFrameBestEffort ==
    /\ [](shot.err => tpc \in {"ls_ret", "fin_build"})
    /\ []((tpc = "fin_build" /\ ~crashed) => (rpicamMutex # "tick" /\ ENABLED FinBuild))
    /\ [][/\ (tpc \in {"ls_lock", "ls_cap", "ls_cp", "ls_ret"})
              => (shot'.count = shot.count /\ UNCHANGED <<tlRunning, timelapse>>)
          /\ (tpc = "ls_ret" /\ tpc' # "ls_ret")
              => (tpc' = "fin_build" /\ rpicamMutex' = "free" /\ shot' = shot)
          /\ (tpc = "fin_build" /\ tpc' # "fin_build")
              => /\ nBuild' = nBuild + 1
                 /\ built' = <<[dir |-> timelapse[1].currentDir,
                                count |-> shot.count, err |-> shot.err]>>
                 /\ ~tlRunning' /\ timelapse' = <<>>
                 /\ tpc' = "sleep" /\ ~rwLocked']_vars

\* takeLastShot failed, and the video was built and the session cleared
C17_Witness ==
    /\ built # <<>> /\ built[1].err /\ built[1].count >= 1
    /\ tpc = "sleep" /\ ~tlRunning /\ timelapse = <<>> /\ rpicamMutex = "free"

(***************************************************************************)
(* Properties of the camera specification with either loglevel             *)
(* (SpecDebug).                                                            *)
(***************************************************************************)
\* the positions of finishTimelapse from the directory listing on
PipelinePcs == {"fin_list", "ls_lock", "ls_cap", "ls_cp", "ls_ret", "fin_build"}

\* C12: before finishTimelapse lists or reads the session directory
\* (lastTLShotInternal, takeLastShot) and before buildVideo is started, the
\* capture process's context has been cancelled, the process has exited and
\* Wait has returned, so the process can write no frame after the count is
\* taken.
C12_StoppedBeforePipeline ==
    /\ [](tpc \in PipelinePcs =>
            (cancelled /\ proc = "exited" /\ waited /\ ~ENABLED WriteFrame))
    /\ [][nBuild' # nBuild => (cancelled /\ proc = "exited" /\ waited)]_vars

\* with loglevel "debug" the Wait of finishTimelapse ran together with the
\* debug goroutine's Wait and has returned; the directory is about to be listed
C12_Witness == debug /\ dbg = "hung" /\ tpc = "fin_list" /\ proc = "exited"

\* C14: a tick whose JobStatus returned an error returns at once with the
\* session, the locks, the capture process and the directories unchanged;
\* the state machine enters startTimelapse or finishTimelapse only on a
\* status it has just polled without error; and no tick ends in a run-time
\* panic of the state-machine goroutine.
C14_PollFailureNoOp ==
    /\ [](tpc # "fin_panic")
    /\ [][(tpc = "polled" /\ tpc' # "polled" /\ poll.err)
            => /\ tpc' = "sleep"
               /\ UNCHANGED <<tlRunning, timelapse, rwLocked, rpicamMutex, proc,
                              cancelled, waited, capturing, dirs, nStart, nBuild>>]_vars
    /\ [][(tpc' \in {"st_mkdir", "fin_stop"} /\ tpc' # tpc)
            => (tpc = "polled" /\ ~poll.err)]_vars

(***************************************************************************)
(* Properties of the functions on their own (SpecFPS, SpecList).           *)
(***************************************************************************)
\* C15: the frame rate buildVideo computes is max(floor(count / length),
\* minimum) for every count >= 0 and length > 0, so it is never below the
\* minimum; count 240, length 7, minimum 12 give 34.
C15_FrameRate ==
    fnRes # <<>> =>
        LET a == fnArg[1]
            floor == CHOOSE q \in 0..a.count :
                        q * a.videoLenght <= a.count /\ a.count < (q + 1) * a.videoLenght
        IN /\ fnRes[1] = (IF floor >= a.minFPS THEN floor ELSE a.minFPS)
           /\ fnRes[1] >= a.minFPS
           /\ (a.count = 240 /\ a.videoLenght = 7 /\ a.minFPS = 12) => fnRes[1] = 34

\* the rate was computed for 240 frames, 7 seconds, minimum 12
C15_Witness ==
    /\ fnRes # <<>>
    /\ fnArg[1] = [count |-> 240, videoLenght |-> 7, minFPS |-> 12]
    /\ fnRes[1] = 34

\* C18: for every name-sorted listing, lastTLShotInternal returns the last
\* entry that is not a directory and whose name ends in ".jpg", together
\* with the number of entries; it returns the error "no timelapse shots
\* found" when there is no such entry; and it never indexes out of range.
C18_LastShotLookup ==
    fnRes # <<>> =>
        LET files == fnArg[1]
            shots == {i \in 1..Len(files) : IsShot(files[i])}
            last == CHOOSE i \in shots : \A j \in shots : j <= i
        IN /\ fnRes[1] # ShotPanic
           /\ fnRes[1] = (IF shots = {} THEN ShotError
                          ELSE ShotFound(files[last].name, Len(files)))

\* C21: over the nine printer states timelapseShouldStart is true exactly
\* for Printing and Attention, timelapseShouldBeRunning exactly for those and
\* Paused and Busy, timelapseShouldStop exactly for Idle, Error, Finished,
\* Stopped and Ready; a state of the STOP set is in neither other set and
\* every one of the nine states is in one of the three.
C21_JobStateClasses ==
    LET st == fnArg[1]
        r == fnRes[1]
        START == {StatusPrinting, StatusAttention}
        CONTINUE == {StatusPaused, StatusBusy}
        STOP == {StatusIdle, StatusError, StatusFinished, StatusStopped, StatusReady}
    IN /\ Cardinality(PrinterStates) = 9
       /\ r.start # <<>> => (r.start[1] <=> st \in START)
       /\ r.running # <<>> => (r.running[1] <=> st \in START \cup CONTINUE)
       /\ r.stop # <<>> => (r.stop[1] <=> st \in STOP)
       /\ (r.start # <<>> /\ r.running # <<>> /\ r.stop # <<>>) =>
             /\ r.stop[1] => (~r.start[1] /\ ~r.running[1])
             /\ st \in PrinterStates => (r.start[1] \/ r.running[1] \/ r.stop[1])

\* the three functions were applied to Busy: to be kept running, neither a
\* start nor a stop state
C21_Witness ==
    /\ fnArg = <<StatusBusy>>
    /\ fnRes = <<[start |-> <<FALSE>>, running |-> <<TRUE>>, stop |-> <<FALSE>>]>>


\* C22: startTimelapse takes rpicamMutex with the blocking Lock: while a
\* one-shot snapshot holds the mutex the start waits (it can take its step
\* exactly when the mutex is free), the only thing it waits for is a snapshot's
\* capture, it leaves the wait only by taking the mutex and going on to
\* cmd.Start, never by giving up; a snapshot holds the mutex exactly while
\* its one-shot process runs and releases it when it leaves the capture,
\* whatever the capture's outcome.
C22_StartBlocksOnLock ==
    /\ [](tpc = "st_lock" => rpicamMutex \in {"free"} \cup Snaps)
    /\ []((~crashed /\ tpc = "st_lock") =>
            ((ENABLED (\E ok \in BOOLEAN, early \in BOOLEAN : StStart(ok, early)))
                <=> rpicamMutex = "free"))
    /\ [][(tpc = "st_lock" /\ tpc' # "st_lock") =>
            (rpicamMutex = "free" /\ rpicamMutex' = "tick" /\ tpc' = "st_ret")]_vars
    /\ [](\A s \in Snaps : rpicamMutex = s <=> snap[s].pc = "cap")
    /\ [](\A s \in Snaps : (~crashed /\ snap[s].pc = "cap") =>
            \A ok \in BOOLEAN : ENABLED SnapCapEnd(s, ok, TRUE))
    /\ [][\A s \in Snaps : (snap[s].pc = "cap" /\ snap'[s].pc # "cap") =>
            (rpicamMutex' = "free" /\ snap'[s].pc = "done")]_vars

\* a start waiting at rpicamMutex.Lock() while a snapshot's one-shot capture
\* holds the mutex
C22_Witness ==
    /\ tpc = "st_lock" /\ ~crashed
    /\ rpicamMutex = "s1" /\ snap["s1"].pc = "cap"


\* C24: when cmd.Start fails, the step that took rpicamMutex cancels the
\* context and leaves the machine idle with no session and no capture
\* process; startTimelapse then returns, which releases rpicamMutex, and
\* handleTimelapse returns after it, which releases the write lock, neither
\* touching the session state; the ticker goes on, and a
\* later poll that reports a START state enters startTimelapse again.
C24_FailedStartLeavesIdle ==
    /\ [][(tpc = "st_lock" /\ tpc' = "st_ret" /\ cancelled') =>
            /\ ~tlRunning' /\ timelapse' = <<>>
            /\ proc' # "running" /\ capturing' = capturing
            /\ nStart' = nStart]_vars
    /\ []((tpc = "st_ret" /\ ~tlRunning) =>
            (cancelled /\ timelapse = <<>> /\ proc # "running" /\ rpicamMutex = "tick"))
    /\ []((~crashed /\ tpc = "st_ret") => ENABLED StReturn)
    /\ [][(tpc = "st_ret" /\ tpc' # "st_ret") =>
            /\ rpicamMutex' = "free" /\ tpc' = "ht_ret"
            /\ UNCHANGED <<tlRunning, timelapse, cancelled>>]_vars
    /\ []((~crashed /\ tpc = "ht_ret") => ENABLED HandleReturn)
    /\ [][(tpc = "ht_ret" /\ tpc' # "ht_ret") =>
            /\ rpicamMutex' # "tick" /\ ~rwLocked' /\ tpc' = "sleep"
            /\ UNCHANGED <<tlRunning, timelapse, cancelled>>]_vars
    /\ []((~crashed /\ tpc = "sleep") => \A r \in PollInputs : ENABLED TickPoll(r))
    /\ [][(/\ tpc = "polled" /\ tpc' # "polled"
           /\ ~tlRunning /\ ~poll.err
           /\ poll.st.Online /\ timelapseShouldStart(poll.st.State)) =>
            (tpc' = "st_mkdir" /\ status' = poll.st)]_vars

\* no start has succeeded, one has failed (the context is cancelled), and a
\* later tick is in startTimelapse again with a second temporary directory
C24_Witness ==
    /\ tpc = "st_lock" /\ ~crashed
    /\ nStart = 0 /\ cancelled
    /\ ~tlRunning /\ timelapse = <<>>
    /\ rpicamMutex = "free"
    /\ Len(dirs) = 2 /\ tmpDir = 2


\* C26: a snapshot that saw tlRunning true goes to LastTLShot and never to a
\* one-shot capture; when LastTLShot takes the read lock after
\* finishTimelapse has cleared the session it returns the error "timelapse
\* doesn't exists" without looking at any directory; otherwise the directory
\* it lists is the one it read from the session under the read lock, and a
\* frame it returns is a frame of that directory (the listing itself may
\* also end the request by the panic of lastTLShotInternal).
C26_SnapshotAfterFinish ==
    /\ [](\A s \in Snaps : snap[s].running =>
            /\ snap[s].pc \in {"last", "list", "done"}
            /\ ~snap[s].locked /\ s \notin capturing /\ rpicamMutex # s
            /\ snap[s].res \in {"none", "no timelapse", "no shot", "ok", "read failed",
                                "panic"})
    /\ [][\A s \in Snaps : (snap[s].pc = "last" /\ snap'[s] # snap[s]) =>
            IF timelapse = <<>>
            THEN snap'[s].pc = "done" /\ snap'[s].res = "no timelapse" /\ snap'[s].dir = -1
            ELSE snap'[s].pc = "list" /\ snap'[s].dir = timelapse[1].currentDir]_vars
    /\ [][\A s \in Snaps : (snap[s].pc = "list" /\ snap'[s] # snap[s]) =>
            /\ snap'[s].pc = "done"
            /\ snap'[s].res \in {"ok", "read failed"} =>
                  \E e \in dirs[snap[s].dir] : IsShot(e)]_vars
    /\ [](\A s \in Snaps : snap[s].pc = "list" => snap[s].dir \in 1..Len(dirs))

\* a snapshot saw the session running, finishTimelapse then cleared the
\* session, and the snapshot's LastTLShot has returned the error
C26_Witness ==
    /\ snap["s1"].running /\ snap["s1"].pc = "done"
    /\ snap["s1"].res = "no timelapse"
    /\ nBuild >= 1 /\ ~tlRunning /\ timelapse = <<>>


\* C23: finishTimelapse starts buildVideo as a goroutine that gets the
\* finished session's record and the count, and in the same step clears the
\* session, releases the write lock and returns, without waiting for the
\* encoder; the record an encoder holds is never the current session's, so a
\* later tick starts a new session while the encoder still runs; the end of
\* an encoder, success or failure, changes nothing of the state machine, the
\* locks, the capture process, the directories or the snapshots.
C23_EncoderDetached ==
    /\ [][nBuild' # nBuild =>
            /\ timelapse # <<>>
            /\ LET e == [session |-> timelapse[1], count |-> shot.count,
                         state |-> "running"]
               IN e \notin enc /\ enc' = enc \cup {e}
            /\ ~tlRunning' /\ timelapse' = <<>>
            /\ ~rwLocked' /\ tpc' = "sleep"]_vars
    /\ [][(enc' # enc /\ nBuild' = nBuild) =>
            /\ UNCHANGED <<tlVars, tickVars, snap, histVars>>
            /\ \E e \in enc :
                  /\ e.state = "running"
                  /\ \E r \in {"done", "failed"} :
                        enc' = (enc \ {e}) \cup {[e EXCEPT !.state = r]}]_vars
    /\ [](\A e \in enc :
            /\ e.session.currentDir \in 1..Len(dirs)
            /\ timelapse # <<>> => e.session.currentDir # timelapse[1].currentDir)
    /\ []((~crashed /\ tpc = "sleep") => \A r \in PollInputs : ENABLED TickPoll(r))
    /\ []((~crashed /\ tpc = "st_lock" /\ rpicamMutex = "free") =>
            ENABLED StStart(TRUE, FALSE))

\* a new session is running, with its capture process, while the encoder of
\* the previous session is still running
C23_Witness ==
    /\ tlRunning /\ timelapse # <<>> /\ proc = "running" /\ nStart = 2
    /\ \E e \in enc : e.state = "running" /\ e.session.currentDir = 1
    /\ timelapse[1].currentDir = 2


\* a step of the state-machine goroutine inside handleTimelapse
TickStep ==
    \/ TickDispatch
    \/ \E ok \in BOOLEAN : StMkdir(ok)
    \/ StProgress
    \/ \E r \in PollInputs : StSubPoll(r)
    \/ \E ok \in BOOLEAN, early \in BOOLEAN : StStart(ok, early)
    \/ StReturn
    \/ HandleReturn
    \/ FinStop
    \/ FinWait
    \/ FinWaitEnter
    \/ \E win \in BOOLEAN : FinWaitRace(win)
    \/ FinWaitAgain
    \/ \E ok \in BOOLEAN : FinList(ok)
    \/ LsLock
    \/ \E ok \in BOOLEAN : LsCapEnd(ok)
    \/ \E ok \in BOOLEAN : LsCp(ok)
    \/ LsReturn
    \/ FinBuild

\* a snapshot goroutine waits for the read lock
WaitsForRead(s) == snap[s].pc \in {"idle", "last"} /\ rwLocked

\* the state-machine goroutine waits for rpicamMutex
WaitsForMutex == tpc \in {"st_lock", "ls_lock"} /\ rpicamMutex # "free"

\* C25: the two locks never form a cycle: a snapshot holds rpicamMutex only
\* during its one-shot capture, where it needs no other lock, so no state has
\* a snapshot waiting for the read lock while the state machine waits for
\* the mutex that snapshot holds; and whoever holds a lock can take its next
\* step, unless it waits for an external process that is still running or
\* for the mutex held by a running one-shot capture, so every lock wait ends
\* once that process has terminated.
C25_NoLockDeadlock ==
    ~crashed =>
        /\ \A s \in Snaps :
              /\ rpicamMutex = s => (snap[s].pc = "cap" /\ s \in capturing)
              /\ ~(WaitsForRead(s) /\ WaitsForMutex /\ rpicamMutex = s)
        /\ rpicamMutex = "tick" => rwLocked
        /\ rwLocked =>
              \/ ENABLED TickStep
              \/ tpc \in {"fin_wait", "fin_waiting"} /\ proc = "running"
              \/ WaitsForMutex /\ rpicamMutex \in Snaps

====
